---- MODULE Spec2Model ----
(***************************************************************************)
(* Model of the WhatsApp bridge (src/src/lib/whatsapp-bridge.ts) and of    *)
(* the whatsmeow HTTP/WebSocket handlers it talks to (src/unnamed/         *)
(* part_000).                                                              *)
(*                                                                         *)
(* The bridge is a single-threaded Node.js object: every callback and the  *)
(* continuation of every awaited request runs to completion, so each is    *)
(* one atomic action.  conn and timers list the WebSocket objects and the   *)
(* timer handles that can still call back or are still referenced, oldest  *)
(* first; a handle is its index in the list.                               *)
(***************************************************************************)
EXTENDS Integers, Sequences, FiniteSets, TLC

\* ------------------------------------------------------------------ bounds
MaxConns == 2     \* WebSocket objects in existence at one time
MaxTimers == 2    \* timer handles in existence at one time
MaxEvents == 2    \* events the service publishes on one instance's stream
MaxLen == 3       \* characters of a destination
MaxSubs == 1      \* connections that WebSocketHandler has served

\* The 5000 ms reconnect delay, in ticks of 5000 ms.
ReconnectDelay == 1

Ids == {"a", "b"}

\* --------------------------------------------------------------- JS values
Undefined == "undefined"
Empty == ""
QR == "qr-text"
QR64 == "qr-image"
Number1 == "15551234567"
Name1 == "Alice"

Statuses == {"disconnected", "connecting", "connected", "qr"}

\* Raw event types of the stream.  "presence" stands for the types that
\* the bridge's eventMap does not list; "constructor" stands for those of
\* them that name a property of Object.prototype.
RawTypes == {"qr", "ready", "connected", "disconnected", "logged_out",
             "message", "message_ack", "presence", "constructor"}

\* ------------------------------------------------------------ Map helpers
Has(m, k) == k \in DOMAIN m

MapSet(m, k, v) == [x \in (DOMAIN m) \cup {k} |-> IF x = k THEN v ELSE m[x]]

MapDelete(m, k) == [x \in (DOMAIN m) \ {k} |-> m[x]]

EmptyMap == [x \in {} |-> 0]

VARIABLES
  instances,        \* Map<string, WAInstance>
  wsConnections,    \* Map<string, WebSocket>: id -> index in conn
  reconnectTimers,  \* Map<string, Timeout>:   id -> index in timers
  conn,             \* the WebSocket objects: [id, state, sinceClose, inbox]
  timers,           \* the timer handles: [id, state, remaining]
  emitted,          \* the events the latest handler gave to this.emit()
  opened,           \* the ids the latest handler constructed a socket for
  available,        \* the transport has stopped failing
  delivered,        \* delivered[id][n]: how often the n-th event that the
                    \* service published for id has reached handleEvent
  registered,       \* the ids whose latest successful connect() no
                    \* successful logout() has followed
  issued,           \* the command call under observation, with the
                    \* requests it has given to fetch()
  handlers          \* the service's runs of WebSocketHandler, one for each
                    \* connection: [id, pc, subscribed, chan, broken, done,
                    \* trace]

vars == <<instances, wsConnections, reconnectTimers, conn, timers, emitted,
          opened, available, delivered, registered, issued, handlers>>

\* ---------------------------------------------------------------- request
\* What fetch + response.json() can yield from the server at baseUrl: a
\* network failure, or an HTTP status with an envelope.  successResponse
\* sends 200 with success true, errorResponse a 4xx/5xx status with success
\* false; any other server, or a proxy in front, can pair them otherwise.
Responses ==
  { [net |-> TRUE,  http |-> 0,   success |-> FALSE, error |-> Empty],
    [net |-> FALSE, http |-> 200, success |-> TRUE,  error |-> Empty],
    [net |-> FALSE, http |-> 200, success |-> FALSE, error |-> "boom"],
    [net |-> FALSE, http |-> 500, success |-> TRUE,  error |-> Empty],
    [net |-> FALSE, http |-> 500, success |-> FALSE, error |-> "boom"],
    [net |-> FALSE, http |-> 500, success |-> FALSE, error |-> Empty] }

\* request<T>(): throws when fetch throws or when data.success is falsy.
Request(resp) ==
  IF resp.net THEN [ok |-> FALSE, error |-> "fetch failed"]
  ELSE IF ~resp.success
       THEN [ok |-> FALSE,
             error |-> IF resp.error # Empty THEN resp.error
                       ELSE "Request failed"]
       ELSE [ok |-> TRUE, error |-> Empty]

\* Status an instance of the remote service can hold when ConnectInstance
\* reads it, two seconds after Manager.Connect returned.
RemoteStatuses == Statuses

\* The data object of ConnectInstance's success response.
ConnectData(status) ==
  [status   |-> status,
   qrCode   |-> IF status = "qr" THEN QR64 ELSE Empty,
   waNumber |-> IF status = "connected" THEN Number1 ELSE Empty]

\* ------------------------------------------------------- command calls
\* A destination is a string, here the sequence of its characters.  The
\* characters: two ASCII digits, a sign, and the Arabic-Indic digit three.
Chars == {"1", "5", "+", "U+0663"}

CodePoint(c) ==
  CASE c = "1" -> 49
    [] c = "5" -> 53
    [] c = "+" -> 43
    [] c = "U+0663" -> 1635

Destinations == UNION {[1..n -> Chars] : n \in 0..MaxLen}

\* The characters that \D does not match: \d is [0-9].
DigitChars == {"0", "1", "2", "3", "4", "5", "6", "7", "8", "9"}

\* A normalisation that removes the sign only.
StripPlus(to) == SelectSeq(to, LAMBDA c : c # "+")

\* to.replace(/\D/g, '')
StripNonDigits(to) == SelectSeq(to, LAMBDA c : c \in DigitChars)

\* cleanPhoneNumber(number) of the service: the loop over the runes.
RECURSIVE CleanPhoneNumber(_)
CleanPhoneNumber(number) ==
  IF number = <<>> THEN <<>>
  ELSE LET c == number[Len(number)]
           result == CleanPhoneNumber(SubSeq(number, 1, Len(number) - 1))
       IN IF CodePoint(c) >= 48 /\ CodePoint(c) <= 57
          THEN Append(result, c)
          ELSE result

\* A request() that calls fetch again when the first call failed.
FetchesWithRetry(resp) == IF Request(resp).ok THEN 1 ELSE 2

\* The calls of fetch() that one request() makes.
Fetches(resp) == 1

\* The path of each command's request.
PathOf(method) ==
  CASE method = "connect" -> "/instance/{instanceId}/connect"
    [] method = "disconnect" -> "/instance/{instanceId}/disconnect"
    [] method = "logout" -> "/instance/{instanceId}/logout"
    [] method = "sendText" -> "/message/text"
    [] method \in {"sendMedia", "sendMediaBase64"} -> "/message/media"
    [] method = "sendLocation" -> "/message/location"
    [] method = "sendPresence" -> "/message/presence"

\* The methods of the bridge that make no request, by what their bodies
\* do: return a value, or throw new Error('Not implemented').
ReturnsObject == {"sendContact"}

ReturnsList ==
  {"getLabels", "getContacts", "getBlockedContacts", "getChats",
   "searchMessages", "getGroups", "getChatMessages"}

ReturnsNothing ==
  {"addLabelToChat", "removeLabelFromChat", "loadInstanceSettings",
   "setProfileName", "setStatus", "setProfilePicture"}

ReturnsTrue == {"isRegisteredUser"}

ReturnsNull == {"getProfilePicUrl"}

Throws ==
  {"sendPoll", "editMessage", "reactToMessage", "deleteMessage",
   "downloadMedia", "getContactById", "blockContact", "unblockContact",
   "getChatById", "archiveChat", "unarchiveChat", "pinChat", "unpinChat",
   "muteChat", "unmuteChat", "deleteChat", "createGroup", "getGroupInfo",
   "addParticipants", "removeParticipants", "promoteParticipants",
   "demoteParticipants", "leaveGroup", "getInviteCode", "setGroupSubject",
   "setGroupDescription", "revokeInviteCode", "joinGroupByInviteCode"}

StubMethods ==
  ReturnsObject \cup ReturnsList \cup ReturnsNothing \cup ReturnsTrue
  \cup ReturnsNull \cup Throws

NotImplemented == "Error: Not implemented"

\* What a call of a method that makes no request ends in.
StubOutcome(method) ==
  CASE method \in ReturnsObject -> [raised |-> FALSE, result |-> "{}"]
    [] method \in ReturnsList -> [raised |-> FALSE, result |-> "[]"]
    [] method \in ReturnsNothing -> [raised |-> FALSE, result |-> Undefined]
    [] method \in ReturnsTrue -> [raised |-> FALSE, result |-> "true"]
    [] method \in ReturnsNull -> [raised |-> FALSE, result |-> "null"]
    [] method \in Throws -> [raised |-> TRUE, result |-> NotImplemented]

\* No command call is observed.
NoCall ==
  [method |-> "none", instanceId |-> Empty, to |-> <<>>, done |-> FALSE,
   raised |-> FALSE, result |-> Undefined, requests |-> <<>>]

\* The call method(id, to, ...) as it starts.
Pending(method, id, to) ==
  [NoCall EXCEPT !.method = method, !.instanceId = id, !.to = to]

\* The call c answered with resp: what it gave to fetch(), and whether it
\* raised.
Call(c, resp) ==
  [c EXCEPT
     !.done = TRUE,
     !.raised = ~Request(resp).ok,
     !.requests = [i \in 1..Fetches(resp) |->
                    [path |-> PathOf(c.method), instanceId |-> c.instanceId,
                     to |-> StripNonDigits(c.to)]]]

\* The observed call is one of method that has not run yet.
Called(method) == issued.method = method /\ ~issued.done

\* The observed call runs and is answered with resp.
Observe(resp) ==
  /\ issued' = Call(issued, resp)
  /\ UNCHANGED handlers

\* ------------------------------------------------------ stream connections
\* Socket states.  "connecting"/"open": the socket is live.  "closing":
\* ws.close() was called on an open socket, which receives until the close
\* notification comes.  "aborting": ws.close() was called on a connecting
\* socket, which gives up the handshake and only reports its close.
\* "failed": the transport closed less than ReconnectDelay ago, sinceClose
\* ticks ago.  "gone": nothing will come from the socket any more.
Live == {"connecting", "open"}

\* Timer states.  "pending" with the ticks left; "fired": the callback has
\* run; "cleared": clearTimeout was called.
\* The part of the bridge that connectWebSocket / disconnectWebSocket touch.
Wiring ==
  [wsConnections |-> wsConnections, reconnectTimers |-> reconnectTimers,
   conn |-> conn, timers |-> timers, threw |-> FALSE]

\* The states in which ws.close() has been called and the close
\* notification is still to come.
Closing == {"closing", "aborting"}

\* ws.close(): an open socket starts closing, a connecting one aborts its
\* handshake; the close notification comes later.  Otherwise nothing
\* happens.
WsClose(c) ==
  IF c.state = "open" THEN [c EXCEPT !.state = "closing"]
  ELSE IF c.state = "connecting" THEN [c EXCEPT !.state = "aborting"]
  ELSE c

\* clearTimeout(timer): a pending timer will not run.
ClearTimeout(t) ==
  IF t.state = "pending" THEN [t EXCEPT !.state = "cleared"] ELSE t

\* A teardown that dereferences the socket without testing `if (ws)`.
DisconnectWebSocketUnguarded(w, id) ==
  IF ~Has(w.wsConnections, id)
  THEN [w EXCEPT !.threw = TRUE]
  ELSE LET k == w.wsConnections[id]
           w1 == [w EXCEPT !.conn[k] = WsClose(@),
                           !.wsConnections = MapDelete(@, id)]
       IN IF Has(w1.reconnectTimers, id)
          THEN [w1 EXCEPT !.timers[w1.reconnectTimers[id]] = ClearTimeout(@),
                          !.reconnectTimers = MapDelete(@, id)]
          ELSE w1

\* disconnectWebSocket(instanceId)
DisconnectWebSocket(w, id) ==
  LET w1 == IF Has(w.wsConnections, id)
            THEN [w EXCEPT !.conn[w.wsConnections[id]] = WsClose(@),
                           !.wsConnections = MapDelete(@, id)]
            ELSE w
  IN IF Has(w1.reconnectTimers, id)
     THEN [w1 EXCEPT !.timers[w1.reconnectTimers[id]] = ClearTimeout(@),
                     !.reconnectTimers = MapDelete(@, id)]
     ELSE w1

\* connectWebSocket(instanceId); throws: new WebSocket() throws and the
\* catch block only logs.
ConnectWebSocket(w, id, throws) ==
  LET w1 == DisconnectWebSocket(w, id)
  IN IF throws THEN w1
     ELSE [w1 EXCEPT
             !.conn = Append(@, [id |-> id, state |-> "connecting",
                                 sinceClose |-> 0, inbox |-> <<>>]),
             !.wsConnections = MapSet(@, id, Len(w1.conn) + 1)]

\* The local part of logout(): teardown, then instances.delete.
LogoutLocal(w, inst, id) ==
  [w |-> DisconnectWebSocket(w, id), instances |-> MapDelete(inst, id)]

\* Objects that nothing references and that will never call back are
\* dropped from conn and timers, and the handles in the two maps follow.
Kept(f, dead, held) ==
  {k \in DOMAIN f : f[k].state \notin dead \/ k \in held}

Rank(keep, k) == Cardinality({j \in keep : j <= k})

Pack(f, keep) ==
  [i \in 1..Cardinality(keep) |-> f[CHOOSE k \in keep : Rank(keep, k) = i]]

Range(m) == {m[x] : x \in DOMAIN m}

Collect(w) ==
  LET kc == Kept(w.conn, {"gone"}, {})
      kt == Kept(w.timers, {"cleared", "fired"}, Range(w.reconnectTimers))
  IN [w EXCEPT
        !.conn = Pack(w.conn, kc),
        !.timers = Pack(w.timers, kt),
        !.wsConnections = [x \in DOMAIN @ |-> Rank(kc, @[x])],
        !.reconnectTimers = [x \in DOMAIN @ |-> Rank(kt, @[x])]]

SetWiring(w) ==
  LET c == Collect(w)
  IN /\ wsConnections' = c.wsConnections
     /\ reconnectTimers' = c.reconnectTimers
     /\ conn' = c.conn
     /\ timers' = c.timers

\* The sockets constructed for instance id.
ConnsOf(id) == {k \in DOMAIN conn : conn[k].id = id}

\* ----------------------------------------------------------------- getters
\* getStatus(instanceId)
GetStatus(id) == IF Has(instances, id) THEN instances[id].status ELSE "not_found"

\* The bridge as its constructor leaves it, and the service with no
\* connection yet.
Constructed ==
  /\ handlers = <<>>
  /\ instances = EmptyMap
  /\ wsConnections = EmptyMap
  /\ reconnectTimers = EmptyMap
  /\ conn = <<>>
  /\ timers = <<>>
  /\ emitted = <<>>
  /\ opened = {}
  /\ available = FALSE
  /\ delivered = [id \in Ids |-> <<>>]
  /\ registered = {}

Init ==
  /\ Constructed
  /\ issued = NoCall

\* ------------------------------------------------------------- handleEvent
NoData == [qr |-> Undefined, qrBase64 |-> Undefined, number |-> Undefined,
           name |-> Undefined, id |-> Undefined, instanceId |-> Undefined]

\* The data object the service attaches to an event of each type.
EventData(type) ==
  IF type = "qr" THEN [NoData EXCEPT !.qr = QR, !.qrBase64 = QR64]
  ELSE IF type = "ready" THEN [NoData EXCEPT !.number = Number1, !.name = Name1]
  ELSE NoData

\* The parsed messages the stream of instance id carries: the service
\* publishes to /ws/{id} the events of instance id.
RawEvents(id) ==
  {[type |-> t, instanceId |-> id, data |-> EventData(t)] : t \in RawTypes}

\* Every message a stream can carry, of the types given: the bridge takes
\* whatever JSON.parse returns, so the instanceId and the data.instanceId
\* of a message are any instance's.
Messages(types) ==
  {[type |-> t, instanceId |-> i,
    data |-> [EventData(t) EXCEPT !.instanceId = d]] :
     t \in types, i \in Ids, d \in Ids \cup {Undefined}}

\* The instanceId of { instanceId, ...data }: a key of data replaces the
\* one written before the spread.
Spread(instanceId, data) ==
  IF data.instanceId # Undefined THEN data.instanceId ELSE instanceId

\* What the event name Object.prototype.constructor becomes as a key of
\* the emitter's listener table.
ObjectFunction == "function Object() { [native code] }"

\* eventMap[type] || type.  eventMap is an object literal, so a lookup of
\* a name that it does not list goes on to Object.prototype.
EventMap(type) ==
  CASE type = "qr" -> "qr"
    [] type = "ready" -> "ready"
    [] type = "connected" -> "authenticated"
    [] type = "disconnected" -> "disconnected"
    [] type = "logged_out" -> "auth_failure"
    [] type = "message" -> "message"
    [] type = "message_ack" -> "message_ack"
    [] type = "constructor" -> ObjectFunction
    [] OTHER -> type

\* A registry update whose ready branch keeps the pairing code.
UpdateInstanceKeepingQr(i, ev) ==
  IF ev.type = "qr"
  THEN [i EXCEPT !.status = "qr", !.qrCode = ev.data.qr,
                 !.qrCodeBase64 = ev.data.qrBase64]
  ELSE IF ev.type = "ready"
  THEN [i EXCEPT !.status = "connected", !.waNumber = ev.data.number,
                 !.waName = ev.data.name]
  ELSE IF ev.type \in {"disconnected", "logged_out"}
  THEN [i EXCEPT !.status = "disconnected"]
  ELSE i

\* The registry update of handleEvent.
UpdateInstance(i, ev) ==
  IF ev.type = "qr"
  THEN [i EXCEPT !.status = "qr", !.qrCode = ev.data.qr,
                 !.qrCodeBase64 = ev.data.qrBase64]
  ELSE IF ev.type = "ready"
  THEN [i EXCEPT !.status = "connected", !.qrCode = Undefined,
                 !.qrCodeBase64 = Undefined, !.waNumber = ev.data.number,
                 !.waName = ev.data.name]
  ELSE IF ev.type \in {"disconnected", "logged_out"}
  THEN [i EXCEPT !.status = "disconnected"]
  ELSE i

\* A handleEvent that registers an instance it has no record of.
HandleEventUpsert(ev) ==
  /\ instances' = MapSet(instances, ev.instanceId,
                         UpdateInstance(
                           IF Has(instances, ev.instanceId)
                           THEN instances[ev.instanceId]
                           ELSE [status |-> "disconnected",
                                 qrCode |-> Undefined,
                                 qrCodeBase64 |-> Undefined,
                                 waNumber |-> Undefined,
                                 waName |-> Undefined], ev))
  /\ emitted' = <<[event |-> EventMap(ev.type),
                   instanceId |-> Spread(ev.instanceId, ev.data),
                   data |-> ev.data]>>
  /\ opened' = {}
  /\ UNCHANGED <<issued, handlers>>

\* handleEvent(event)
HandleEvent(ev) ==
  /\ instances' = IF Has(instances, ev.instanceId)
                  THEN [instances EXCEPT
                          ![ev.instanceId] = UpdateInstance(@, ev)]
                  ELSE instances
  /\ emitted' = <<[event |-> EventMap(ev.type),
                   instanceId |-> Spread(ev.instanceId, ev.data),
                   data |-> ev.data]>>
  /\ opened' = {}
  /\ UNCHANGED <<issued, handlers>>

\* ---------------------------------------------------------------- commands
\* The methods that send to a destination; sendMediaBase64 calls sendMedia.
SendMethods ==
  {"sendText", "sendMedia", "sendMediaBase64", "sendLocation", "sendPresence"}

\* sendText / sendMedia / sendMediaBase64 / sendLocation / sendPresence,
\* for the observed call.
Send(resp) ==
  /\ issued.method \in SendMethods
  /\ ~issued.done
  /\ Observe(resp)
  /\ emitted' = <<>>
  /\ opened' = {}
  /\ UNCHANGED <<instances, wsConnections, reconnectTimers, conn, timers,
                 available, delivered, registered>>

\* A method that makes no request, for the observed call.
Stub ==
  /\ issued.method \in StubMethods
  /\ ~issued.done
  /\ issued' = [issued EXCEPT
                  !.done = TRUE,
                  !.raised = StubOutcome(issued.method).raised,
                  !.result = StubOutcome(issued.method).result]
  /\ UNCHANGED handlers
  /\ emitted' = <<>>
  /\ opened' = {}
  /\ UNCHANGED <<instances, wsConnections, reconnectTimers, conn, timers,
                 available, delivered, registered>>

\* The record connect() builds from the response data.
NewInstance(d) ==
  [status |-> d.status, qrCode |-> Undefined, qrCodeBase64 |-> d.qrCode,
   waNumber |-> d.waNumber, waName |-> Undefined]

\* new WebSocket() can run for id: it throws (while the transport still
\* fails), or there is room for one more socket.
CanConstruct(throws) == IF throws THEN ~available ELSE Len(conn) < MaxConns

\* connect(instanceId)
Connect(id, resp, status, throws) ==
  IF ~Request(resp).ok
  THEN /\ emitted' = <<>>
       /\ opened' = {}
       /\ UNCHANGED <<instances, wsConnections, reconnectTimers, conn,
                      timers, available, delivered, registered>>
  ELSE /\ CanConstruct(throws)
       /\ instances' = MapSet(instances, id, NewInstance(ConnectData(status)))
       /\ SetWiring(ConnectWebSocket(Wiring, id, throws))
       /\ emitted' = <<>>
       /\ opened' = IF throws THEN {} ELSE {id}
       /\ registered' = registered \cup {id}
       /\ UNCHANGED <<available, delivered>>

\* disconnect(instanceId)
Disconnect(id, resp) ==
  /\ instances' = IF Request(resp).ok /\ Has(instances, id)
                  THEN [instances EXCEPT ![id].status = "disconnected"]
                  ELSE instances
  /\ emitted' = <<>>
  /\ opened' = {}
  /\ UNCHANGED <<wsConnections, reconnectTimers, conn, timers, available,
                 delivered, registered>>

\* A logout that tears down and removes the record before it looks at the
\* response.
LogoutThenRequest(id, resp) ==
  LET r == LogoutLocal(Wiring, instances, id)
  IN /\ SetWiring(r.w)
     /\ instances' = r.instances
     /\ emitted' = <<>>
     /\ opened' = {}
     /\ registered' = IF Request(resp).ok THEN registered \ {id} ELSE registered
     /\ UNCHANGED <<available, delivered>>

\* logout(instanceId)
Logout(id, resp) ==
  IF ~Request(resp).ok
  THEN /\ emitted' = <<>>
       /\ opened' = {}
       /\ UNCHANGED <<instances, wsConnections, reconnectTimers, conn,
                      timers, available, delivered, registered>>
  ELSE LET r == LogoutLocal(Wiring, instances, id)
       IN /\ SetWiring(r.w)
          /\ instances' = r.instances
          /\ emitted' = <<>>
          /\ opened' = {}
          /\ registered' = registered \ {id}
          /\ UNCHANGED <<available, delivered>>

\* ------------------------------------------------------- socket callbacks
\* ws.onopen
OnOpen(k) ==
  /\ conn[k].state = "connecting"
  /\ conn' = [conn EXCEPT ![k].state = "open"]
  /\ emitted' = <<>>
  /\ UNCHANGED <<issued, handlers>>
  /\ opened' = {}
  /\ UNCHANGED <<instances, wsConnections, reconnectTimers, timers, available,
                 delivered, registered>>

\* ws.onmessage: a socket delivers messages until its close notification.
OnMessage(k, ev) ==
  /\ conn[k].state \in {"open", "closing"}
  /\ HandleEvent(ev)
  /\ UNCHANGED <<wsConnections, reconnectTimers, conn, timers, available,
                 delivered, registered>>

\* ws.onclose, either for a transport that failed (the socket was still
\* connecting or open) or as the notification that follows ws.close().
OnClose(k) ==
  LET id == conn[k].id
      failed == conn[k].state \in Live
      w == [Wiring EXCEPT
              !.conn[k] = [@ EXCEPT
                             !.state = IF failed /\ ReconnectDelay > 0
                                       THEN "failed" ELSE "gone",
                             !.inbox = <<>>],
              !.wsConnections = MapDelete(@, id),
              !.timers = Append(@, [id |-> id, state |-> "pending",
                                    remaining |-> ReconnectDelay]),
              !.reconnectTimers = MapSet(@, id, Len(timers) + 1)]
  IN /\ conn[k].state \in Live \cup Closing
     /\ failed => ~available
     /\ Len(Collect(w).timers) <= MaxTimers
     /\ SetWiring(w)
     /\ emitted' = <<>>
     /\ UNCHANGED <<issued, handlers>>
     /\ opened' = {}
     /\ UNCHANGED <<instances, available, delivered, registered>>

\* ---------------------------------------------------- the service's stream
\* The n-th event the service publishes for instance id: a message, told
\* apart by its id.
StreamEvent(id, n) ==
  [type |-> "message", instanceId |-> id,
   data |-> [NoData EXCEPT !.id = ToString(n)]]

\* The sockets whose WebSocketHandler is subscribed for instance id: a
\* handler subscribes after the upgrade of its connection and unsubscribes
\* when it reads the close of it, which is while the bridge's socket is
\* open or closing.
Subscribed(id) == {k \in ConnsOf(id) : conn[k].state \in {"open", "closing"}}

\* The service publishes the next event of instance id: every subscribed
\* handler takes it from its channel and writes it to its connection.
Publish(id) ==
  LET n == Len(delivered[id]) + 1
  IN /\ n <= MaxEvents
     /\ conn' = [k \in DOMAIN conn |->
                   IF k \in Subscribed(id)
                   THEN [conn[k] EXCEPT !.inbox = Append(@, n)]
                   ELSE conn[k]]
     /\ delivered' = [delivered EXCEPT ![id] = Append(@, 0)]
     /\ emitted' = <<>>
     /\ UNCHANGED <<issued, handlers>>
     /\ opened' = {}
     /\ UNCHANGED <<instances, wsConnections, reconnectTimers, timers,
                    available, registered>>

\* ws.onmessage for the oldest event that the service wrote to socket k
\* and that has not arrived yet.
Deliver(k) ==
  /\ conn[k].state \in {"open", "closing"}
  /\ conn[k].inbox # <<>>
  /\ HandleEvent(StreamEvent(conn[k].id, Head(conn[k].inbox)))
  /\ conn' = [conn EXCEPT ![k].inbox = Tail(@)]
  /\ delivered' = [delivered EXCEPT
                     ![conn[k].id][Head(conn[k].inbox)] = @ + 1]
  /\ UNCHANGED <<wsConnections, reconnectTimers, timers, available,
                 registered>>

\* ------------------------------------------------ the service's handler
\* WebSocketHandler runs once for each connection.  pc is the place of the
\* run: "subscribe" after the upgrade, "snapshot" before the write of the
\* initial event, "loop" in the event loop, "returning" between a return
\* statement and the deferred calls, "returned" at the end.  trace lists
\* the calls of Subscribe and Unsubscribe and the messages written to the
\* connection, in order.
InitialEvent(id) == [type |-> "status", instanceId |-> id, data |-> NoData]

\* conn.WriteJSON(v): the write fails (ok is false) or puts v on the
\* connection; once a write has failed, every later one fails.
WriteJSON(h, v, ok) ==
  IF h.broken \/ ~ok
  THEN [h EXCEPT !.broken = TRUE]
  ELSE [h EXCEPT !.trace = Append(@, [op |-> "WriteJSON", v |-> v])]

\* Deferred calls that close the connection and leave the subscription.
DeferredCloseOnly(h) ==
  [h EXCEPT !.pc = "returned", !.broken = TRUE]

\* The deferred calls, in the order they run: ticker.Stop(),
\* h.manager.Unsubscribe(instanceID, eventChan), conn.Close().
Deferred(h) ==
  [h EXCEPT !.pc = "returned", !.subscribed = FALSE, !.broken = TRUE,
            !.trace = Append(@, [op |-> "Unsubscribe"])]

\* What every step of a handler leaves alone.
HandlerFrame ==
  /\ emitted' = <<>>
  /\ opened' = {}
  /\ UNCHANGED <<instances, wsConnections, reconnectTimers, conn, timers,
                 available, registered, issued>>

\* A client connects to /ws/{id}: h.upgrader.Upgrade succeeds, or fails
\* and the handler returns.
Upgrade(id, ok) ==
  /\ Len(handlers) < MaxSubs
  /\ handlers' = Append(handlers,
                        [id |-> id, pc |-> IF ok THEN "subscribe" ELSE "returned",
                         subscribed |-> FALSE, chan |-> <<>>, broken |-> ~ok,
                         done |-> FALSE, trace |-> <<>>])
  /\ HandlerFrame
  /\ UNCHANGED delivered

\* eventChan := h.manager.Subscribe(instanceID)
Subscribe(h) ==
  /\ handlers[h].pc = "subscribe"
  /\ handlers' = [handlers EXCEPT ![h].pc = "snapshot",
                                  ![h].subscribed = TRUE,
                                  ![h].trace = Append(@, [op |-> "Subscribe"])]
  /\ HandlerFrame
  /\ UNCHANGED delivered

\* conn.WriteJSON(initialEvent), whose error is not read; then the pong
\* handler, the ticker and the read goroutine are set up.
WriteInitial(h, ok) ==
  /\ handlers[h].pc = "snapshot"
  /\ handlers' = [handlers EXCEPT
                    ![h] = [WriteJSON(@, InitialEvent(@.id), ok)
                              EXCEPT !.pc = "loop"]]
  /\ HandlerFrame
  /\ UNCHANGED delivered

\* case event := <-eventChan
WriteEvent(h, ok) ==
  /\ handlers[h].pc = "loop"
  /\ handlers[h].chan # <<>>
  /\ handlers' = [handlers EXCEPT
                    ![h] = LET r == WriteJSON([@ EXCEPT !.chan = Tail(@)],
                                              StreamEvent(@.id, Head(@.chan)),
                                              ok)
                           IN IF r.broken THEN [r EXCEPT !.pc = "returning"]
                              ELSE r]
  /\ HandlerFrame
  /\ UNCHANGED delivered

\* case <-ticker.C: the write of a ping, a control frame, which fails like
\* the write of a message.
Ping(h, ok) ==
  /\ handlers[h].pc = "loop"
  /\ handlers' = [handlers EXCEPT
                    ![h] = IF @.broken \/ ~ok
                           THEN [@ EXCEPT !.broken = TRUE, !.pc = "returning"]
                           ELSE @]
  /\ HandlerFrame
  /\ UNCHANGED delivered

\* The read goroutine: conn.ReadMessage() returns an error (the peer has
\* gone) and done is closed.
ReadFails(h) ==
  /\ handlers[h].pc = "loop"
  /\ ~handlers[h].done
  /\ handlers' = [handlers EXCEPT ![h].done = TRUE]
  /\ HandlerFrame
  /\ UNCHANGED delivered

\* case <-done
Done(h) ==
  /\ handlers[h].pc = "loop"
  /\ handlers[h].done
  /\ handlers' = [handlers EXCEPT ![h].pc = "returning"]
  /\ HandlerFrame
  /\ UNCHANGED delivered

\* The deferred calls of a handler that has reached a return statement.
Return(h) ==
  /\ handlers[h].pc = "returning"
  /\ handlers' = [handlers EXCEPT ![h] = Deferred(@)]
  /\ HandlerFrame
  /\ UNCHANGED delivered

\* The service publishes the next event of instance id: it goes on the
\* channel of every handler subscribed for id.
Fanout(id) ==
  LET n == Len(delivered[id]) + 1
  IN /\ n <= MaxEvents
     /\ handlers' = [h \in DOMAIN handlers |->
                       IF handlers[h].id = id /\ handlers[h].subscribed
                       THEN [handlers[h] EXCEPT !.chan = Append(@, n)]
                       ELSE handlers[h]]
     /\ delivered' = [delivered EXCEPT ![id] = Append(@, 0)]
     /\ HandlerFrame

\* A timer callback that reconnects without looking at the registry.
ReconnectAlways(inst, id) == TRUE

\* if (this.instances.has(instanceId)) in the reconnect timer's callback
ReconnectAllowed(inst, id) == Has(inst, id)

\* The callback of the reconnect timer t, once its delay has run out.
TimerFire(t, throws) ==
  LET id == timers[t].id
      w == [Wiring EXCEPT !.timers[t].state = "fired"]
  IN /\ timers[t].state = "pending"
     /\ timers[t].remaining = 0
     /\ IF ReconnectAllowed(instances, id)
        THEN /\ CanConstruct(throws)
             /\ SetWiring(ConnectWebSocket(w, id, throws))
             /\ opened' = IF throws THEN {} ELSE {id}
        ELSE /\ ~throws
             /\ SetWiring(w)
             /\ opened' = {}
     /\ emitted' = <<>>
     /\ UNCHANGED <<issued, handlers>>
     /\ UNCHANGED <<instances, available, delivered, registered>>

\* One tick of the clock: pending timers come closer to firing, and the
\* time since each transport close grows until it reaches the delay.
Tick ==
  /\ SetWiring([Wiring EXCEPT
       !.timers = [t \in DOMAIN timers |->
                     IF timers[t].state = "pending" /\ timers[t].remaining > 0
                     THEN [timers[t] EXCEPT !.remaining = @ - 1]
                     ELSE timers[t]],
       !.conn = [k \in DOMAIN conn |->
                   IF conn[k].state = "failed"
                   THEN IF conn[k].sinceClose + 1 >= ReconnectDelay
                        THEN [conn[k] EXCEPT !.state = "gone"]
                        ELSE [conn[k] EXCEPT !.sinceClose = @ + 1]
                   ELSE conn[k]]])
  /\ emitted' = <<>>
  /\ UNCHANGED <<issued, handlers>>
  /\ opened' = {}
  /\ UNCHANGED <<instances, available, delivered, registered>>

\* The transport recovers: from now on no open attempt fails.
Recover ==
  /\ ~available
  /\ available' = TRUE
  /\ emitted' = <<>>
  /\ UNCHANGED <<issued, handlers>>
  /\ opened' = {}
  /\ UNCHANGED <<instances, wsConnections, reconnectTimers, conn, timers,
                 delivered, registered>>

\* The inputs a response leaves open: a failed request reads none.
StatusesOf(resp, statuses) ==
  IF Request(resp).ok THEN statuses ELSE {"connecting"}

ThrowsOf(resp) == IF Request(resp).ok THEN BOOLEAN ELSE {FALSE}

\* One step of a command, a socket's open or close, a timer or the clock,
\* for the instance ids and the connect statuses given.
Wire(ids, statuses) ==
  \/ \E id \in ids, resp \in Responses :
       \E status \in StatusesOf(resp, statuses), throws \in ThrowsOf(resp) :
         Connect(id, resp, status, throws) /\ UNCHANGED <<issued, handlers>>
  \/ \E id \in ids, resp \in Responses :
       Disconnect(id, resp) /\ UNCHANGED <<issued, handlers>>
  \/ \E id \in ids, resp \in Responses :
       Logout(id, resp) /\ UNCHANGED <<issued, handlers>>
  \/ \E k \in DOMAIN conn : OnOpen(k)
  \/ \E k \in DOMAIN conn : OnClose(k)
  \/ \E t \in DOMAIN timers, throws \in BOOLEAN : TimerFire(t, throws)
  \/ Tick
  \/ Recover

\* One step of the bridge for the instance ids, the connect statuses and
\* the raw event types given; a message of any of the types can arrive.
Step(ids, statuses, types) ==
  \/ Wire(ids, statuses)
  \/ \E k \in DOMAIN conn :
       \E ev \in {e \in RawEvents(conn[k].id) : e.type \in types} :
         OnMessage(k, ev)

\* One instance, every connect status and every event type.
Next == Step({"a"}, RemoteStatuses, RawTypes)

Spec == Init /\ [][Next]_vars

\* Two instances; the registry content that the stream wiring never reads
\* is kept to one connect status and one event type.
WiringNext == Step(Ids, {"connecting"}, {"message"})

WiringSpec == Init /\ [][WiringNext]_vars

\* Two instances whose streams carry every message: a ready event with
\* any instanceId and any data.instanceId.  The clock stands still, so
\* that no reconnect timer runs.
ForeignNext ==
  \/ \E id \in Ids, resp \in Responses :
       \E status \in StatusesOf(resp, {"connecting"}),
          throws \in ThrowsOf(resp) :
         Connect(id, resp, status, throws) /\ UNCHANGED <<issued, handlers>>
  \/ \E id \in Ids, resp \in Responses :
       Logout(id, resp) /\ UNCHANGED <<issued, handlers>>
  \/ \E k \in DOMAIN conn : OnOpen(k)
  \/ \E k \in DOMAIN conn : OnClose(k)
  \/ \E k \in DOMAIN conn : \E ev \in Messages({"ready"}) : OnMessage(k, ev)

ForeignSpec == Init /\ [][ForeignNext]_vars

\* One instance whose stream carries the numbered events that the service
\* publishes, each written once to every subscribed connection.
DeliveryNext ==
  \/ Wire({"a"}, {"connecting"})
  \/ \E id \in {"a"} : Publish(id)
  \/ \E k \in DOMAIN conn : Deliver(k)

DeliverySpec == Init /\ [][DeliveryNext]_vars

\* One command call is observed, from its start to its return: each
\* method, with every destination and every response.
Calls ==
  {Pending(m, "a", <<>>) : m \in {"connect", "disconnect", "logout"}}
  \cup {Pending(m, "a", to) : m \in SendMethods, to \in Destinations}

CommandInit ==
  /\ Constructed
  /\ issued \in Calls

\* The observed call of connect, disconnect or logout runs.
Lifecycle ==
  \/ \E resp \in Responses :
       \E status \in StatusesOf(resp, {"connecting"}),
          throws \in ThrowsOf(resp) :
         /\ Called("connect")
         /\ Connect(issued.instanceId, resp, status, throws)
         /\ Observe(resp)
  \/ \E resp \in Responses :
       /\ Called("disconnect")
       /\ Disconnect(issued.instanceId, resp)
       /\ Observe(resp)
  \/ \E resp \in Responses :
       /\ Called("logout")
       /\ Logout(issued.instanceId, resp)
       /\ Observe(resp)

CommandNext ==
  \/ Lifecycle
  \/ \E resp \in Responses : Send(resp)

CommandSpec == CommandInit /\ [][CommandNext]_vars

\* One call of connect, disconnect or logout is observed at any moment of
\* the bridge's run: the bridge runs until the call, and the call ends the
\* observation.
LifecycleCalls ==
  {Pending(m, "a", <<>>) : m \in {"connect", "disconnect", "logout"}}

ObservedInit ==
  /\ Constructed
  /\ issued \in LifecycleCalls

ObservedNext ==
  \/ ~issued.done /\ Wire({"a"}, {"connecting"})
  \/ Lifecycle

ObservedSpec == ObservedInit /\ [][ObservedNext]_vars

\* One call of a method that makes no request is observed, for each such
\* method and each instance id.
StubCalls == {Pending(m, id, <<>>) : m \in StubMethods, id \in Ids}

StubInit ==
  /\ Constructed
  /\ issued \in StubCalls

StubSpec == StubInit /\ [][Stub]_vars

\* The service alone: clients connect to /ws/{id}, the service publishes
\* events, and each connection's handler runs to its end.
HandlerNext ==
  \/ \E id \in Ids, ok \in BOOLEAN : Upgrade(id, ok)
  \/ \E h \in DOMAIN handlers : Subscribe(h)
  \/ \E h \in DOMAIN handlers, ok \in BOOLEAN : WriteInitial(h, ok)
  \/ \E h \in DOMAIN handlers, ok \in BOOLEAN : WriteEvent(h, ok)
  \/ \E h \in DOMAIN handlers, ok \in BOOLEAN : Ping(h, ok)
  \/ \E h \in DOMAIN handlers : ReadFails(h)
  \/ \E h \in DOMAIN handlers : Done(h)
  \/ \E h \in DOMAIN handlers : Return(h)
  \/ \E id \in Ids : Fanout(id)

HandlerSpec == Init /\ [][HandlerNext]_vars

\* One instance, every connect status, and the event types that store a
\* pairing code and clear it.
RegistryNext == Step({"a"}, RemoteStatuses, {"qr", "ready"})

RegistrySpec == Init /\ [][RegistryNext]_vars

\* Node runs every timer that is due and delivers every socket callback:
\* the clock advances, due timers fire, a connecting socket opens once the
\* transport stays up, and a socket that was closed reports its close.
Fairness ==
  /\ WF_vars(Tick)
  /\ WF_vars(\E t \in DOMAIN timers, throws \in BOOLEAN : TimerFire(t, throws))
  /\ WF_vars(\E k \in DOMAIN conn : OnOpen(k))
  /\ WF_vars(\E k \in DOMAIN conn : conn[k].state \in Closing /\ OnClose(k))

FairSpec == Spec /\ Fairness

\* ------------------------------------------------------------------ claims
LiveConns(id) == {k \in ConnsOf(id) : conn[k].state \in Live}

PendingTimers(id) ==
  {t \in DOMAIN timers : timers[t].id = id /\ timers[t].state = "pending"}

\* A newer socket for the same instance id exists.
Superseded(k) == \E j \in DOMAIN conn : j > k /\ conn[j].id = conn[k].id

\* C1: for every instance id at most one socket is connecting or open.
AtMostOneLiveConnection ==
  \A id \in Ids : Cardinality(LiveConns(id)) <= 1

\* C2: a message or a close notification that arrives on a socket that a
\* newer socket of the same id has superseded changes neither the registry
\* nor the two maps, and emits nothing.
StaleEventsDiscarded ==
  [][\A k \in DOMAIN conn :
       (/\ Superseded(k)
        /\ \/ OnClose(k)
           \/ \E ev \in RawEvents(conn[k].id) : OnMessage(k, ev))
       => /\ UNCHANGED <<instances, wsConnections, reconnectTimers>>
          /\ emitted' = <<>>]_vars

\* C3: a socket is constructed for an id only by a handler that leaves the
\* id in the registry: the reconnect timer opens nothing for an id that
\* logout removed, and only connect(id) puts the id back.
ReconnectOnlyWhileRegistered ==
  \A id \in opened : Has(instances, id)

\* C3, the case: a reconnect timer has run for an id that is no longer in
\* the registry (its handle is still held, so it did not reconnect).
ReconnectSkippedAfterLogout ==
  \E id \in Ids :
    /\ ~Has(instances, id)
    /\ Has(reconnectTimers, id)
    /\ timers[reconnectTimers[id]].state = "fired"
    /\ opened = {}

\* C4: while an id is not in the registry (after logout, until the next
\* connect) it has no live socket, no pending timer and no entry in
\* reconnectTimers.
NoStreamAfterLogout ==
  \A id \in Ids :
    ~Has(instances, id) =>
      /\ LiveConns(id) = {}
      /\ PendingTimers(id) = {}
      /\ ~Has(reconnectTimers, id)

ReconnectWaitsFullDelay ==
  [][\A t \in DOMAIN timers :
       (TimerFire(t, FALSE) /\ timers[t].id \in opened')
       => \A k \in ConnsOf(timers[t].id) : conn[k].state # "failed"]_vars

\* C7: once the transport stays up, an id that stays in the registry gets
\* an open socket again.
HasOpen(id) == \E k \in ConnsOf(id) : conn[k].state = "open"

EventuallyReopens ==
  \A id \in Ids :
    (available /\ Has(instances, id)) ~> (HasOpen(id) \/ ~Has(instances, id))

\* C8: right after a successful connect(id), getStatus(id) is connecting,
\* qr or connected.
ConnectLeavesUsableStatus ==
  [][\A id \in Ids, resp \in Responses, status \in RemoteStatuses,
        throws \in BOOLEAN :
       (Request(resp).ok /\ Connect(id, resp, status, throws))
       => GetStatus(id)' \in {"connecting", "qr", "connected"}]_vars

\* C9: a record whose status is connected or disconnected holds no pairing
\* code (an empty string from the service counts as none).
Absent(v) == v \in {Undefined, Empty}

PairingFieldsCleared ==
  \A id \in DOMAIN instances :
    instances[id].status \in {"connected", "disconnected"}
      => Absent(instances[id].qrCode) /\ Absent(instances[id].qrCodeBase64)

\* C10: a streamed event never takes a record from connected back to qr,
\* and never takes it out of disconnected.
StatusMonotonic ==
  [][\A k \in DOMAIN conn :
       (\E ev \in RawEvents(conn[k].id) : OnMessage(k, ev))
       => \A id \in DOMAIN instances :
            /\ ~(instances[id].status = "connected" /\ instances'[id].status = "qr")
            /\ instances[id].status = "disconnected"
                 => instances'[id].status = "disconnected"]_vars

\* C11: the registry holds a record for id exactly when a connect(id) has
\* succeeded and no successful logout(id) has followed it; so handleEvent
\* and disconnect, which are neither, never add or remove a record, also
\* for an event whose instanceId is not registered.  A record replaced by
\* a further connect(id) is the one record of id: instances is a map.
RegistryLifecycle == DOMAIN instances = registered

\* C11, the case: handleEvent has emitted an event of an instance that the
\* registry does not hold, and the registry still does not hold it.
EventOfUnregisteredInstance ==
  /\ emitted # <<>>
  /\ ~Has(instances, emitted[1].instanceId)

\* C12: while the transport of a socket of a registered id has failed and
\* no socket of that id is open again, getStatus(id) is disconnected.
DisconnectedWhileReconnecting ==
  \A k \in DOMAIN conn :
    (/\ conn[k].state = "failed"
     /\ Has(instances, conn[k].id)
     /\ ~HasOpen(conn[k].id))
    => GetStatus(conn[k].id) = "disconnected"

\* The kinds of the events a handler emitted, in order.
Kinds(es) == [i \in DOMAIN es |-> es[i].event]

\* C13: handling a raw logged_out event of a registered instance leaves
\* its status disconnected and emits two events, a disconnected one and an
\* auth_failure one; handling a raw disconnected event leaves its status
\* disconnected and emits exactly one event, a disconnected one.
LoggedOutEmitsBoth ==
  [][\A k \in DOMAIN conn : \A ev \in RawEvents(conn[k].id) :
       (Has(instances, ev.instanceId) /\ OnMessage(k, ev))
       => /\ ev.type = "logged_out"
               => /\ GetStatus(ev.instanceId)' = "disconnected"
                  /\ Len(emitted') = 2
                  /\ Range(Kinds(emitted')) = {"disconnected", "auth_failure"}
          /\ ev.type = "disconnected"
               => /\ GetStatus(ev.instanceId)' = "disconnected"
                  /\ Kinds(emitted') = <<"disconnected">>]_vars

\* The raw ready event of instance id.
ReadyEvent(id) ==
  [type |-> "ready", instanceId |-> id, data |-> EventData("ready")]

\* What a record has to be after a ready event with payload d.
ReadyRecord(r, d) ==
  /\ r.status = "connected"
  /\ r.qrCode = Undefined
  /\ r.qrCodeBase64 = Undefined
  /\ r.waNumber = d.number
  /\ r.waName = d.name

\* C14: a raw ready event turns every record the registry can hold (also
\* one with status qr and a stored pairing code) into one with status
\* connected, no qrCode, no qrCodeBase64, and the number and name of the
\* event; and whenever handleEvent has just handled a ready event, it has
\* emitted exactly one event, of kind ready with the event's payload, and
\* the record of the instance is in that form.
ReadyConnects ==
  /\ EventMap("ready") = "ready"
  /\ \A id \in DOMAIN instances :
       ReadyRecord(UpdateInstance(instances[id], ReadyEvent(id)),
                   ReadyEvent(id).data)
  /\ \A i \in DOMAIN emitted :
       emitted[i].event = "ready"
       => /\ emitted = <<[event |-> "ready",
                          instanceId |-> emitted[i].instanceId,
                          data |-> ReadyEvent(emitted[i].instanceId).data]>>
          /\ Has(instances, emitted[i].instanceId)
               => ReadyRecord(instances[emitted[i].instanceId],
                              emitted[i].data)

\* C14, the case: handleEvent has just handled the ready event of a
\* registered instance.
ReadyHandled ==
  /\ emitted # <<>>
  /\ emitted[1].event = "ready"
  /\ Has(instances, emitted[1].instanceId)
  /\ instances[emitted[1].instanceId].waName = Name1

\* The raw types the bridge's eventMap lists.
Recognised == {"qr", "ready", "connected", "disconnected", "logged_out",
               "message", "message_ack"}

\* C15: handling a raw event whose type eventMap does not list emits
\* exactly one event, whose kind is the raw type unchanged, and leaves the
\* registry as it was.
UnknownTypeVerbatim ==
  [][\A k \in DOMAIN conn : \A ev \in RawEvents(conn[k].id) :
       (ev.type \notin Recognised /\ OnMessage(k, ev))
       => /\ Kinds(emitted') = <<ev.type>>
          /\ instances' = instances]_vars

\* C16: while an instance stays registered, no event of its stream reaches
\* handleEvent twice, and an event that the service wrote to one of the
\* instance's sockets stays on its way until it has reached handleEvent.
ExactlyOnce ==
  [][\A id \in DOMAIN instances \cap DOMAIN instances' :
       /\ \A n \in DOMAIN delivered'[id] : delivered'[id][n] <= 1
       /\ \A k \in ConnsOf(id) : \A n \in Range(conn[k].inbox) :
            \/ delivered'[id][n] >= 1
            \/ \E j \in DOMAIN conn' :
                 conn'[j].id = id /\ n \in Range(conn'[j].inbox)]_vars

\* C17: when an event of an instance's stream reaches handleEvent, no
\* event that the service published after it has reached handleEvent
\* before.
InOrder ==
  [][\A id \in Ids : \A n \in DOMAIN delivered[id] :
       delivered'[id][n] > delivered[id][n]
       => \A m \in DOMAIN delivered[id] :
            m > n => delivered[id][m] = 0]_vars

\* The responses the contract counts as failures: no response, a status
\* outside 200..299, or an envelope with success false.
FailedResponse(resp) ==
  resp.net \/ resp.http \notin 200..299 \/ ~resp.success

\* C18: a command answered with a non-2xx status or with success false
\* raises, with the envelope's error string when there is one, and has no
\* normal result: connect() registers nothing and opens nothing.
NonSuccessRaises ==
  [][\A id \in Ids, resp \in Responses :
       (/\ FailedResponse(resp)
        /\ \E status \in RemoteStatuses, throws \in BOOLEAN :
             Connect(id, resp, status, throws))
       => /\ ~Request(resp).ok
          /\ resp.error # Empty => Request(resp).error = resp.error
          /\ UNCHANGED <<instances, wsConnections>>]_vars

\* C19: a command call that has returned or raised has given exactly one
\* request to fetch(), whether the request succeeded or failed.
OneRequestPerCommand ==
  issued.done => Len(issued.requests) = 1

\* C19, the case: a sendMediaBase64 call, which goes through sendMedia,
\* has raised on a failed request.
FailedCommandReturned ==
  /\ issued.method = "sendMediaBase64"
  /\ issued.done
  /\ issued.raised
  /\ issued.requests # <<>>

\* The positions of the digits 0..9 in a destination.
DigitPositions(to) == {i \in DOMAIN to : to[i] \in DigitChars}

\* C20: the destination in the request of a send call consists of digits
\* only, and is the call's destination with the non-digits removed and the
\* digits in their order; normalising it again changes nothing, and the
\* service's cleanPhoneNumber gives the same for the call's destination
\* and leaves the normalised one as it is.
DestinationNormalised ==
  (issued.done /\ issued.method \in SendMethods)
  => \A r \in Range(issued.requests) :
       LET pos == DigitPositions(issued.to)
       IN /\ \A j \in DOMAIN r.to : r.to[j] \in DigitChars
          /\ Len(r.to) = Cardinality(pos)
          /\ \A i \in pos : r.to[Rank(pos, i)] = issued.to[i]
          /\ StripNonDigits(r.to) = r.to
          /\ CleanPhoneNumber(issued.to) = r.to
          /\ CleanPhoneNumber(r.to) = r.to

\* C20, the case: a send call whose destination holds digits, a sign and
\* a digit that is not ASCII has given its request to fetch().
MixedDestinationSent ==
  /\ issued.done
  /\ issued.method = "sendText"
  /\ issued.to = <<"+", "1", "U+0663">>
  /\ issued.requests # <<>>
  /\ issued.requests[1].to = <<"1">>

\* The methods of the capabilities that the service does not back:
\* contacts, groups, chats, labels, profile, polls, reactions, editing,
\* deleting, media download and message search.
Unsupported == StubMethods \ {"loadInstanceSettings"}

\* C21: a call of a method of an unsupported capability ends in a
\* NotImplemented failure and in no normal result.
UnsupportedRaises ==
  (issued.done /\ issued.method \in Unsupported)
  => /\ issued.raised
     /\ issued.result = NotImplemented

\* The places of a handler's trace that hold a call of op.
Places(h, op) ==
  {i \in DOMAIN handlers[h].trace : handlers[h].trace[i].op = op}

\* The places of a handler's trace that hold the write of the snapshot.
Snapshots(h) ==
  {i \in Places(h, "WriteJSON") :
     handlers[h].trace[i].v = InitialEvent(handlers[h].id)}

\* C22: on every connection of WebSocketHandler, the first message written
\* is the status snapshot; no second snapshot is written, and a handler
\* that has reached its event loop has written the one snapshot unless the
\* connection broke before any message went out; every event is written
\* after the snapshot; a handler that has returned after subscribing has
\* called Unsubscribe exactly once and is subscribed no more; and nothing
\* is written after Unsubscribe.
SubscriberLifetime ==
  \A h \in DOMAIN handlers :
    LET r == handlers[h]
        writes == Places(h, "WriteJSON")
        unsubs == Places(h, "Unsubscribe")
    IN /\ \A i \in writes :
            /\ Snapshots(h) # {}
            /\ \A j \in Snapshots(h) : j <= i
            /\ Places(h, "Subscribe") # {}
            /\ \A j \in Places(h, "Subscribe") : j < i
       /\ Cardinality(Snapshots(h)) <= 1
       /\ r.pc \in {"loop", "returning"}
            => \/ Cardinality(Snapshots(h)) = 1
               \/ r.broken /\ writes = {}
       /\ Cardinality(unsubs) <= 1
       /\ \A j \in unsubs : j = Len(r.trace)
       /\ r.pc = "returned"
            => /\ ~r.subscribed
               /\ Places(h, "Subscribe") # {} => Cardinality(unsubs) = 1
       /\ r.subscribed => unsubs = {}

\* C22, the case: a handler has written the snapshot and an event, then a
\* write failed, and it has returned through the deferred calls.
ReturnedAfterWriteFailure ==
  \E h \in DOMAIN handlers :
    /\ handlers[h].pc = "returned"
    /\ ~handlers[h].done
    /\ Len(handlers[h].trace) = 4
    /\ handlers[h].trace[2].v = InitialEvent(handlers[h].id)
    /\ handlers[h].trace[3].v = StreamEvent(handlers[h].id, 1)
    /\ handlers[h].trace[4].op = "Unsubscribe"

\* Every socket that can receive a message is one of instance id.
OnlyStreamsOf(id) ==
  \A j \in DOMAIN conn : conn[j].state \in {"open", "closing"} => conn[j].id = id

\* C23: a message that arrives on a socket of instance A, whatever its
\* instanceId and data.instanceId, leaves the record of every other
\* instance as it was and is emitted with instanceId A.
OwnInstanceOnly ==
  [][\A k \in DOMAIN conn : \A ev \in Messages(RawTypes) :
       (OnlyStreamsOf(conn[k].id) /\ OnMessage(k, ev))
       => /\ \A id \in DOMAIN instances \ {conn[k].id} :
               instances'[id] = instances[id]
          /\ \A i \in DOMAIN emitted' :
               emitted'[i].instanceId = conn[k].id]_vars

\* C24: every instance id has at most one pending reconnect timer, every
\* pending timer is the one that reconnectTimers records for its id (so
\* that disconnectWebSocket(id) clears it), and a handler that has opened
\* a socket for an id leaves no pending timer of that id.
OnePendingTimer ==
  \A id \in Ids :
    /\ Cardinality(PendingTimers(id)) <= 1
    /\ \A t \in PendingTimers(id) :
         Has(reconnectTimers, id) /\ reconnectTimers[id] = t
    /\ id \in opened => PendingTimers(id) = {}

\* C25: a call of connect, disconnect or logout whose request fails
\* raises, and leaves the registry, the two maps, the sockets and the
\* timers exactly as they were before the call.
FailedCallChangesNothing ==
  [][(issued'.done /\ ~issued.done)
     => /\ issued'.raised
          => UNCHANGED <<instances, wsConnections, reconnectTimers, conn,
                         timers>>
        /\ \A resp \in Responses :
             (~Request(resp).ok /\ issued' = Call(issued, resp))
             => issued'.raised]_vars

\* C25, the case: a logout of a registered instance with a socket and a
\* pending reconnect timer has raised, and record, socket and timer are
\* still there.
FailedLogoutKeptAll ==
  /\ issued.method = "logout"
  /\ issued.done
  /\ issued.raised
  /\ Has(instances, "a")
  /\ LiveConns("a") # {}
  /\ PendingTimers("a") # {}

====
